---- MODULE Spec2Model ----
(***************************************************************************)
(* A model of two components of finality-grandpa:                          *)
(*   - VoteGraph (src/src/vote_graph.rs): the sparse graph of vote-nodes   *)
(*     with cumulative vote weights, and its insert routine;               *)
(*   - VotingRound (src/src/voter/voting_round.rs): the per-round state    *)
(*     machine run by `run`.                                               *)
(* SpecGraph drives the vote graph, SpecRound drives the voting round.     *)
(***************************************************************************)
EXTENDS Integers, Sequences, FiniteSets, TLC

VARIABLES
    entries,    \* VoteGraph.entries: hash -> Entry
    heads,      \* VoteGraph.heads
    base,       \* VoteGraph.base
    votes,      \* history: how many times each (hash, weight) was inserted
    last,       \* history: the last insert call and the branch of insert it took
    state,      \* VotingRound.state
    voting,     \* VotingRound.voting
    incoming,   \* VotingRound.incoming: the items the stream holds, oldest first
    outgoing,   \* VotingRound.outgoing: the messages the sink has accepted
    round,      \* VotingRound.round
    primary_block,          \* VotingRound.primary_block
    previous_round_state,   \* VotingRound.previous_round_state
    previous_round_state_updates,   \* the items that receiver holds
    prevote_timer,   \* the fused prevote timer: "pending" or "terminated"
    precommit_timer, \* the fused precommit timer
    pc,         \* where run is: "loop", "wait", "done", "err" or "panic"
    arm,        \* run: the state that the match of the last iteration took out
    proposed,   \* run: the local `proposed` of the Start arm
    timer_ready,\* run: what handle_inputs! last returned
    arrived,    \* history: how many items each input stream has been given
    log         \* history: the items incoming has yielded, and those run has taken

graphVars == <<entries, heads, base, votes, last>>

roundVars == <<state, voting, incoming, outgoing, round, primary_block,
               previous_round_state, previous_round_state_updates,
               prevote_timer, precommit_timer, pc, arm, proposed, timer_ready,
               arrived, log>>

vars == <<graphVars, roundVars>>

(***************************************************************************)
(* Bounds of the model.                                                    *)
(***************************************************************************)
\* number of insert calls made on one graph
MaxInserts == 3

\* number of items the incoming stream yields during one round
MaxMsgs == 2

\* number of previous-round state updates received during one round
MaxUpdates == 1

\* how many items the incoming stream yields where run is followed up to
\* its return and after it
MaxYield == 3

\* the vote weights an insert may carry
Weights == {1, 2}

(***************************************************************************)
(* The chain (tests::DummyChain): a fixed tree of blocks.                  *)
(*   G(1) - A(2) - B(3) - C(4) - D1(5) - E1(6)                             *)
(*                             \ D2(5) - E2(6)                             *)
(*                 \ X(3)                                                  *)
(***************************************************************************)
NULL_HASH == "NULL"

GENESIS_HASH == "G"

Blocks == {"G", "A", "B", "X", "C", "D1", "E1", "D2", "E2"}

\* the blocks in one fixed order
BlockOrder == <<"G", "A", "B", "X", "C", "D1", "E1", "D2", "E2">>

IndexOf(b) == CHOOSE i \in 1..Len(BlockOrder) : BlockOrder[i] = b

\* BlockRecord.parent
Parent(b) ==
    CASE b = "G"  -> NULL_HASH
      [] b = "A"  -> "G"
      [] b = "B"  -> "A"
      [] b = "X"  -> "A"
      [] b = "C"  -> "B"
      [] b = "D1" -> "C"
      [] b = "E1" -> "D1"
      [] b = "D2" -> "C"
      [] b = "E2" -> "D2"

\* BlockRecord.number, as push_blocks assigns it: one more than the parent's
RECURSIVE Number(_)
Number(b) == IF Parent(b) = NULL_HASH THEN 1 ELSE Number(Parent(b)) + 1

\* Chain::ancestry's loop: the hashes from block's parent back to `to`;
\* the empty sequence stands for None (NULL_HASH is met first).
RECURSIVE AncestryFrom(_, _)
AncestryFrom(to, block) ==
    LET p == Parent(block)
    IN  IF p = NULL_HASH THEN <<>>
        ELSE IF p = to THEN <<p>>
        ELSE LET rest == AncestryFrom(to, p)
             IN  IF rest = <<>> THEN <<>> ELSE <<p>> \o rest

\* Chain::ancestry(base, block)
ancestry(b, block) == AncestryFrom(b, block)

\* block is a strict descendant of anc on the chain
IsDescendant(anc, block) == ancestry(anc, block) # <<>>

IsEqualOrDescendant(anc, block) == block = anc \/ IsDescendant(anc, block)

(***************************************************************************)
(* Entry                                                                   *)
(***************************************************************************)
Entry(number, ancestors, descendents, cumulative_vote) ==
    [number |-> number, ancestors |-> ancestors,
     descendents |-> descendents, cumulative_vote |-> cumulative_vote]

\* Entry::in_direct_ancestry: "None", "true" or "false"
in_direct_ancestry(e, hash, number) ==
    IF number >= e.number THEN "None"
    ELSE LET offset == e.number - number - 1
         IN  IF offset < Len(e.ancestors)
             THEN (IF e.ancestors[offset + 1] = hash THEN "true" ELSE "false")
             ELSE "None"

\* Entry::ancestor_node: the last of ancestors, or "None"
ancestor_node(e) ==
    IF Len(e.ancestors) = 0 THEN "None" ELSE e.ancestors[Len(e.ancestors)]

(***************************************************************************)
(* VoteGraph.  A graph value is a record [entries, heads, base].            *)
(***************************************************************************)
\* VoteGraph::new
new(base_hash, base_number) ==
    [entries |-> [h \in {base_hash} |-> Entry(base_number, <<>>, <<>>, 0)],
     heads   |-> {base_hash},
     base    |-> base_hash]

\* a find_containing_nodes that inspects the heads only and never follows
\* ancestor_node() backwards
WalkBackHeadsOnly(g, head, hash, number, acc) ==
    IF head \notin DOMAIN g.entries THEN acc
    ELSE IF head \in acc.visited THEN acc
    ELSE LET acc1 == [acc EXCEPT !.visited = @ \cup {head}]
         IN  IF in_direct_ancestry(g.entries[head], hash, number) = "true"
             THEN [acc1 EXCEPT !.keys = Append(@, head)]
             ELSE acc1

\* the inner loop of find_containing_nodes, started at one head;
\* acc = [visited, keys]
RECURSIVE WalkBack(_, _, _, _, _)
WalkBack(g, head, hash, number, acc) ==
    IF head \notin DOMAIN g.entries THEN acc
    ELSE IF head \in acc.visited THEN acc
    ELSE LET acc1 == [acc EXCEPT !.visited = @ \cup {head}]
             e    == g.entries[head]
             r    == in_direct_ancestry(e, hash, number)
         IN  IF r = "true" THEN [acc1 EXCEPT !.keys = Append(@, head)]
             ELSE IF r = "false" THEN acc1
             ELSE IF ancestor_node(e) # "None"
                  THEN WalkBack(g, ancestor_node(e), hash, number, acc1)
                  ELSE acc1

\* the outer loop of find_containing_nodes over the heads, in the order
\* the HashSet's iterator yields them
RECURSIVE WalkHeads(_, _, _, _, _)
WalkHeads(g, order, hash, number, acc) ==
    IF order = <<>> THEN acc
    ELSE WalkHeads(g, Tail(order), hash, number,
                   WalkBack(g, Head(order), hash, number, acc))

\* VoteGraph::find_containing_nodes: [some |-> FALSE] (None) when the hash
\* is a key already, else Some of the sequence of containing keys
find_containing_nodes(g, hash, number, order) ==
    IF hash \in DOMAIN g.entries THEN [some |-> FALSE, keys |-> <<>>]
    ELSE [some |-> TRUE,
          keys |-> WalkHeads(g, order, hash, number,
                             [visited |-> {}, keys |-> <<>>]).keys]

\* a fold step that leaves the new node's cumulative_vote at its default
BranchStepNoInherit(acc, descendent, ancestor_number) ==
    LET entry  == acc.entries[descendent]
        offset == entry.number - ancestor_number
        tail   == SubSeq(entry.ancestors, offset + 1, Len(entry.ancestors))
        kept   == SubSeq(entry.ancestors, 1, offset)
        made   == IF acc.maybe_entry = <<>>
                  THEN Entry(ancestor_number, tail, <<>>, 0)
                  ELSE acc.maybe_entry[1]
    IN  [entries     |-> [acc.entries EXCEPT ![descendent].ancestors = kept],
         maybe_entry |-> << [made EXCEPT !.descendents = Append(@, descendent)] >>]

\* a fold step that splits one place too early (the offset that
\* in_direct_ancestry uses)
BranchStepOffByOne(acc, descendent, ancestor_number) ==
    LET entry  == acc.entries[descendent]
        offset == entry.number - ancestor_number - 1
        tail   == SubSeq(entry.ancestors, offset + 1, Len(entry.ancestors))
        kept   == SubSeq(entry.ancestors, 1, offset)
        made   == IF acc.maybe_entry = <<>>
                  THEN Entry(ancestor_number, tail, <<>>, 0)
                  ELSE acc.maybe_entry[1]
    IN  [entries     |-> [acc.entries EXCEPT ![descendent].ancestors = kept],
         maybe_entry |-> << [made EXCEPT
                               !.descendents = Append(@, descendent),
                               !.cumulative_vote = @ + entry.cumulative_vote] >>]

\* one step of the fold of introduce_branch; acc = [entries, maybe_entry],
\* maybe_entry being <<>> (None) or <<entry>>
BranchStep(acc, descendent, ancestor_number) ==
    LET entry  == acc.entries[descendent]
        offset == entry.number - ancestor_number
        tail   == SubSeq(entry.ancestors, offset + 1, Len(entry.ancestors))
        kept   == SubSeq(entry.ancestors, 1, offset)
        made   == IF acc.maybe_entry = <<>>
                  THEN Entry(ancestor_number, tail, <<>>, 0)
                  ELSE acc.maybe_entry[1]
    IN  [entries     |-> [acc.entries EXCEPT ![descendent].ancestors = kept],
         maybe_entry |-> << [made EXCEPT
                               !.descendents = Append(@, descendent),
                               !.cumulative_vote = @ + entry.cumulative_vote] >>]

RECURSIVE BranchFold(_, _, _)
BranchFold(acc, descendents, ancestor_number) ==
    IF descendents = <<>> THEN acc
    ELSE BranchFold(BranchStep(acc, Head(descendents), ancestor_number),
                    Tail(descendents), ancestor_number)

\* VoteGraph::introduce_branch
introduce_branch(g, descendents, ancestor_hash, ancestor_number) ==
    LET r == BranchFold([entries |-> g.entries, maybe_entry |-> <<>>],
                        descendents, ancestor_number)
    IN  IF r.maybe_entry = <<>> THEN [g EXCEPT !.entries = r.entries]
        ELSE [g EXCEPT !.entries =
                [h \in DOMAIN r.entries \cup {ancestor_hash} |->
                    IF h = ancestor_hash THEN r.maybe_entry[1] ELSE r.entries[h]]]

\* the index (from 1) of the first element of the ancestry that is a key
RECURSIVE FirstTracked(_, _, _)
FirstTracked(g, anc, i) ==
    IF i > Len(anc) THEN 0
    ELSE IF anc[i] \in DOMAIN g.entries THEN i
    ELSE FirstTracked(g, anc, i + 1)

\* an append that leaves the attachment node in heads
appendKeepsHead(g, hash, number) ==
    LET anc == ancestry(g.base, hash)
        idx == FirstTracked(g, anc, 1)
        ancestor_hash == anc[idx]
        pushed == [g.entries EXCEPT ![ancestor_hash].descendents = Append(@, hash)]
    IN  [g EXCEPT
           !.entries = [h \in DOMAIN pushed \cup {hash} |->
                          IF h = hash
                          THEN Entry(number, SubSeq(anc, 1, idx), <<>>, 0)
                          ELSE pushed[h]],
           !.heads = @ \cup {hash}]

\* an append that stores the whole ancestry down to the base as the edge
appendUntruncated(g, hash, number) ==
    LET anc == ancestry(g.base, hash)
        idx == FirstTracked(g, anc, 1)
        ancestor_hash == anc[idx]
        pushed == [g.entries EXCEPT ![ancestor_hash].descendents = Append(@, hash)]
    IN  [g EXCEPT
           !.entries = [h \in DOMAIN pushed \cup {hash} |->
                          IF h = hash
                          THEN Entry(number, anc, <<>>, 0)
                          ELSE pushed[h]],
           !.heads = (@ \ {ancestor_hash}) \cup {hash}]

\* VoteGraph::append
append(g, hash, number) ==
    LET anc == ancestry(g.base, hash)
        idx == FirstTracked(g, anc, 1)
        ancestor_hash == anc[idx]
        pushed == [g.entries EXCEPT ![ancestor_hash].descendents = Append(@, hash)]
    IN  [g EXCEPT
           !.entries = [h \in DOMAIN pushed \cup {hash} |->
                          IF h = hash
                          THEN Entry(number, SubSeq(anc, 1, idx), <<>>, 0)
                          ELSE pushed[h]],
           !.heads = (@ \ {ancestor_hash}) \cup {hash}]

\* A weight walk that stops after the node's own ancestor_node().
AddVoteOneStep(ents, inspecting_hash, vote) ==
    LET added == [ents EXCEPT ![inspecting_hash].cumulative_vote = @ + vote]
        parent == ancestor_node(ents[inspecting_hash])
    IN  IF parent = "None" THEN added
        ELSE [added EXCEPT ![parent].cumulative_vote = @ + vote]

\* the loop of insert that updates the cumulative vote data
RECURSIVE AddVote(_, _, _)
AddVote(ents, inspecting_hash, vote) ==
    LET added == [ents EXCEPT ![inspecting_hash].cumulative_vote = @ + vote]
        parent == ancestor_node(ents[inspecting_hash])
    IN  IF parent = "None" THEN added ELSE AddVote(added, parent, vote)

\* VoteGraph::insert; `order` is the iteration order of the heads
insert(g, hash, number, vote, order) ==
    LET containing == find_containing_nodes(g, hash, number, order)
        g1 == IF ~containing.some THEN g
              ELSE IF containing.keys = <<>> THEN append(g, hash, number)
              ELSE introduce_branch(g, containing.keys, hash, number)
    IN  [g1 EXCEPT !.entries = AddVote(g1.entries, hash, vote)]

(***************************************************************************)
(* The vote graph as a state machine.                                      *)
(***************************************************************************)
Graph == [entries |-> entries, heads |-> heads, base |-> base]

\* the sequences that list every element of set S once
Orders(S) ==
    {o \in [1..Cardinality(S) -> S] : \A i, j \in 1..Cardinality(S) : o[i] = o[j] => i = j}

RECURSIVE SumOver(_, _)
SumOver(f, S) ==
    IF S = {} THEN 0
    ELSE LET x == CHOOSE y \in S : TRUE IN f[x] + SumOver(f, S \ {x})

VoteKeys == Blocks \X Weights

NumInserts == SumOver(votes, VoteKeys)

\* the graph after VoteGraph::new(base_hash, base_number), as the tests make it
GraphInit ==
    /\ \E b \in {GENESIS_HASH, "A"} :
         LET g == new(b, Number(b))
         IN  /\ entries = g.entries
             /\ heads = g.heads
             /\ base = g.base
    /\ votes = [k \in VoteKeys |-> 0]
    /\ last = [op |-> "new", hash |-> base, vote |-> 0]

\* which arm of the match in insert a call takes
InsertArm(g, hash, number, order) ==
    LET containing == find_containing_nodes(g, hash, number, order)
    IN  IF ~containing.some THEN "existing"
        ELSE IF containing.keys = <<>> THEN "append" ELSE "branch"

\* tracker.insert(hash, number, vote, &chain), the number being the chain's
Insert ==
    /\ NumInserts < MaxInserts
    /\ \E hash \in Blocks, vote \in Weights, order \in Orders(heads) :
         /\ IsEqualOrDescendant(base, hash)
         /\ LET g == insert(Graph, hash, Number(hash), vote, order)
            IN  /\ entries' = g.entries
                /\ heads' = g.heads
         /\ votes' = [votes EXCEPT ![<<hash, vote>>] = @ + 1]
         /\ last' = [op |-> InsertArm(Graph, hash, Number(hash), order),
                     hash |-> hash, vote |-> vote]
    /\ UNCHANGED base
    /\ UNCHANGED roundVars


(***************************************************************************)
(* The environment of a voting round: blocks are (hash, number) pairs of   *)
(* the chain above; an Option is the empty sequence (None) or a sequence   *)
(* of one element (Some).                                                  *)
(***************************************************************************)
None == <<>>

Some(x) == <<x>>

Block(h) == <<h, Number(h)>>

\* Environment::is_equal_or_descendent_of(base, block)
is_equal_or_descendent_of(b, block) == IsEqualOrDescendant(b, block)

\* Environment::ancestry(base, block): Ok(the hashes from block's parent down
\* to base, base included), or Err(NotDescendent), here the empty sequence
env_ancestry(b, block) == ancestry(b, block)

\* the head of the best chain containing a block known to the environment
RECURSIVE BestChain(_)
BestChain(h) ==
    LET kids == {c \in Blocks : Parent(c) = h}
    IN  IF kids = {} THEN h
        ELSE BestChain(CHOOSE c \in kids : \A d \in kids : IndexOf(c) <= IndexOf(d))

\* what Environment::best_chain_containing(hash) may answer: an error, no
\* block (the block is unknown), or the head of the best chain containing it
best_chain_containing(h) ==
    {[tag |-> "Err", val |-> None], [tag |-> "Ok", val |-> None],
     [tag |-> "Ok", val |-> Some(Block(BestChain(h)))]}

\* the block numbers a caller can pass for a hash other than the chain's
WrongNumbers(hash) == {Number(b) : b \in Blocks} \ {Number(hash)}

\* tracker.insert(hash, number, vote, &chain) with a number that is not the
\* chain's number of the hash
InsertMismatch ==
    /\ NumInserts < MaxInserts
    /\ last.op # "mismatch"
    /\ \E hash \in Blocks, vote \in Weights, order \in Orders(heads) :
       \E number \in WrongNumbers(hash) :
         /\ IsEqualOrDescendant(base, hash)
         /\ LET g == insert(Graph, hash, number, vote, order)
            IN  /\ entries' = g.entries
                /\ heads' = g.heads
         /\ votes' = [votes EXCEPT ![<<hash, vote>>] = @ + 1]
         /\ last' = [op |-> "mismatch", hash |-> hash, vote |-> vote]
    /\ UNCHANGED base
    /\ UNCHANGED roundVars


(***************************************************************************)
(* Round: the votes of one round and what is derived from them.            *)
(***************************************************************************)
\* the voter set: p is the round's primary; p alone is a supermajority
Voters == {"p", "q"}

VoterWeight(v) == IF v = "p" THEN 3 ELSE 1

primary_voter == "p"

TotalWeight == VoterWeight("p") + VoterWeight("q")

\* the supermajority threshold T - f, f = (T - 1) / 3
Threshold == TotalWeight - ((TotalWeight - 1) \div 3)

\* the base of the round
RoundBase == Block("B")

\* Round::new(RoundParams { voters, base, round_number })
RoundNew ==
    [base |-> RoundBase,
     prevotes |-> [v \in Voters |-> None],
     precommits |-> [v \in Voters |-> None],
     equivocations |-> {},
     prevoted_index |-> FALSE,
     precommitted_index |-> FALSE]

\* the weight of the votes cast on b or on a descendant of b
RECURSIVE WeightOn(_, _, _)
WeightOn(cast, b, vs) ==
    IF vs = {} THEN 0
    ELSE LET v == CHOOSE x \in vs : TRUE
         IN  (IF cast[v] # None /\ IsEqualOrDescendant(b, cast[v][1][1])
              THEN VoterWeight(v) ELSE 0) + WeightOn(cast, b, vs \ {v})

\* the highest block of a set of blocks of one chain, if any
Highest(S) ==
    IF S = {} THEN None
    ELSE Some(Block(CHOOSE b \in S : \A c \in S : Number(c) <= Number(b)))

\* the highest block at or above the base with a supermajority of the votes
GhostOf(base_hash, cast) ==
    Highest({b \in Blocks : /\ IsEqualOrDescendant(base_hash, b)
                            /\ WeightOn(cast, b, Voters) >= Threshold})

\* Round::state().prevote_ghost
prevote_ghost(r) == GhostOf(r.base[1], r.prevotes)

\* Round::finalized()
finalized(r) == GhostOf(r.base[1], r.precommits)

\* the weight of the voters that have not precommitted
RECURSIVE Remaining(_, _)
Remaining(r, vs) ==
    IF vs = {} THEN 0
    ELSE LET v == CHOOSE x \in vs : TRUE
         IN  (IF r.precommits[v] = None THEN VoterWeight(v) ELSE 0)
             + Remaining(r, vs \ {v})

\* a supermajority of precommits on b or above is still possible
PossibleToPrecommit(r, b) ==
    WeightOn(r.precommits, b, Voters) + Remaining(r, Voters) >= Threshold

\* Round::state().estimate: the highest block at or below the prevote-GHOST
\* on which a supermajority of precommits is still possible
estimate(r) ==
    LET g == prevote_ghost(r)
    IN  IF g = None THEN None
        ELSE Highest({b \in Blocks : /\ IsEqualOrDescendant(r.base[1], b)
                                     /\ IsEqualOrDescendant(b, g[1][1])
                                     /\ PossibleToPrecommit(r, b)})

\* Round::completable(): the estimate is below the prevote-GHOST, or is the
\* prevote-GHOST and cannot move higher
completable(r) ==
    LET g == prevote_ghost(r)
        e == estimate(r)
    IN  /\ e # None
        /\ \/ e # g
           \/ \A d \in Blocks : IsDescendant(g[1][1], d) => ~PossibleToPrecommit(r, d)

\* the import of one vote into the prevotes or the precommits of a round:
\* the votes afterwards, and the result
ImportVote(r, cast, kind, target, id, sig) ==
    IF ~sig THEN [cast |-> cast, eq |-> r.equivocations, result |-> "BadSignature"]
    ELSE IF id \notin Voters
    THEN [cast |-> cast, eq |-> r.equivocations, result |-> "NotAVoter"]
    ELSE IF cast[id] = Some(target)
    THEN [cast |-> cast, eq |-> r.equivocations, result |-> "DuplicateVote"]
    ELSE IF cast[id] # None
    THEN [cast |-> cast, eq |-> r.equivocations \cup {<<kind, id>>},
          result |-> "Equivocation"]
    ELSE [cast |-> [cast EXCEPT ![id] = Some(target)], eq |-> r.equivocations,
          result |-> "Imported"]

\* Round::import_prevote
import_prevote(r, target, id, sig) ==
    LET i == ImportVote(r, r.prevotes, "Prevote", target, id, sig)
    IN  [r EXCEPT !.prevotes = i.cast, !.equivocations = i.eq]

\* Round::import_precommit
import_precommit(r, target, id, sig) ==
    LET i == ImportVote(r, r.precommits, "Precommit", target, id, sig)
    IN  [r EXCEPT !.precommits = i.cast, !.equivocations = i.eq]

\* Round::set_prevoted_index
set_prevoted_index(r) == [r EXCEPT !.prevoted_index = TRUE]

\* Round::set_precommitted_index
set_precommitted_index(r) == [r EXCEPT !.precommitted_index = TRUE]

(***************************************************************************)
(* VotingRound.  Its methods are operators on a value `s` of the struct    *)
(* (the fields that the methods read or write); a method that awaits the   *)
(* environment yields the set of its possible outcomes [self, ret].         *)
(***************************************************************************)
\* Voting::is_active
is_active(v) == v \in {"Yes", "Primary"}

\* Voting::is_primary
is_primary(v) == v = "Primary"

\* a message: Message::{Prevote, Precommit, PrimaryPropose} with its target
Msg(kind, target) == [kind |-> kind, target |-> target]

\* SignedMessage { message, signature, id }; sig tells whether the
\* signature verifies
Signed(kind, target, id, sig) ==
    [kind |-> kind, target |-> target, id |-> id, sig |-> sig]

Outcome(s, ret) == [self |-> s, ret |-> ret]

\* a handle_incoming_message that does not compare the target with the base
handle_incoming_message_any_target(s, m) ==
    IF m.kind = "Prevote"
    THEN [s EXCEPT !.round = import_prevote(@, m.target, m.id, m.sig)]
    ELSE IF m.kind = "Precommit"
    THEN [s EXCEPT !.round = import_precommit(@, m.target, m.id, m.sig)]
    ELSE IF m.id = primary_voter
    THEN [s EXCEPT !.primary_block = Some(m.target)]
    ELSE s

\* a handle_incoming_message that takes a PrimaryPropose from any sender
handle_incoming_message_any_sender(s, m) ==
    IF ~is_equal_or_descendent_of(s.round.base[1], m.target[1]) THEN s
    ELSE IF m.kind = "Prevote"
    THEN [s EXCEPT !.round = import_prevote(@, m.target, m.id, m.sig)]
    ELSE IF m.kind = "Precommit"
    THEN [s EXCEPT !.round = import_precommit(@, m.target, m.id, m.sig)]
    ELSE [s EXCEPT !.primary_block = Some(m.target)]

\* VotingRound::handle_incoming_message
handle_incoming_message(s, m) ==
    IF ~is_equal_or_descendent_of(s.round.base[1], m.target[1]) THEN s
    ELSE IF m.kind = "Prevote"
    THEN [s EXCEPT !.round = import_prevote(@, m.target, m.id, m.sig)]
    ELSE IF m.kind = "Precommit"
    THEN [s EXCEPT !.round = import_precommit(@, m.target, m.id, m.sig)]
    ELSE IF m.id = primary_voter
    THEN [s EXCEPT !.primary_block = Some(m.target)]
    ELSE s

\* the outcomes of outgoing.send(message).await? followed by `ret`
Send(s, m, ret) ==
    {Outcome([s EXCEPT !.outgoing = Append(@, m)], ret), Outcome(s, "err")}

\* a primary_propose that does not look at the previous round's finalized
primary_propose_unfinalized_or_not(s) ==
    IF ~is_primary(s.voting) THEN {Outcome(s, "false")}
    ELSE LET est == s.previous_round_state.estimate
         IN  IF est = None THEN {Outcome(s, "false")}
             ELSE Send(s, Msg("PrimaryPropose", est[1]), "true")

\* VotingRound::primary_propose
primary_propose(s) ==
    IF ~is_primary(s.voting) THEN {Outcome(s, "false")}
    ELSE LET est == s.previous_round_state.estimate
             fin == s.previous_round_state.finalized
         IN  IF est = None THEN {Outcome(s, "false")}
             ELSE IF fin = None \/ est[1][2] > fin[1][2]
             THEN Send(s, Msg("PrimaryPropose", est[1]), "true")
             ELSE {Outcome(s, "false")}

\* a construct_prevote that takes the primary's block whenever it is lower
\* than the previous prevote-GHOST, without looking it up in the ancestry
find_descendent_of_unchecked(s) ==
    LET previous_round_estimate == s.previous_round_state.estimate[1]
    IN  IF s.primary_block = None THEN previous_round_estimate[1]
        ELSE LET primary == s.primary_block[1]
                 previous_prevote_ghost == s.previous_round_state.prevote_ghost[1]
             IN  IF primary = previous_prevote_ghost THEN primary[1]
                 ELSE IF primary[2] >= previous_prevote_ghost[2]
                 THEN previous_round_estimate[1]
                 ELSE primary[1]

\* VotingRound::construct_prevote, up to the call of best_chain_containing:
\* the hash whose best chain is voted for
find_descendent_of(s) ==
    LET previous_round_estimate == s.previous_round_state.estimate[1]
    IN  IF s.primary_block = None THEN previous_round_estimate[1]
        ELSE LET primary == s.primary_block[1]
                 previous_prevote_ghost == s.previous_round_state.prevote_ghost[1]
             IN  IF primary = previous_prevote_ghost THEN primary[1]
                 ELSE IF primary[2] >= previous_prevote_ghost[2]
                 THEN previous_round_estimate[1]
                 ELSE LET anc == env_ancestry(previous_round_estimate[1],
                                              previous_prevote_ghost[1])
                          to_sub == primary[2] + 1
                          offset == IF previous_prevote_ghost[2] < to_sub THEN 0
                                    ELSE previous_prevote_ghost[2] - to_sub
                      IN  IF anc = <<>> THEN previous_round_estimate[1]
                          ELSE IF offset < Len(anc) /\ anc[offset + 1] = primary[1]
                          THEN primary[1]
                          ELSE previous_round_estimate[1]

\* VotingRound::construct_prevote: the answers of best_chain_containing for
\* the chosen block
construct_prevote(s) == best_chain_containing(find_descendent_of(s))

\* VotingRound::prevote
\* prevote that stays a voter when the best chain holds no block
prevote_keeps_voting(s, prevote_timer_ready) ==
    IF ~(prevote_timer_ready \/ completable(s.round)) THEN {Outcome(s, "false")}
    ELSE IF ~is_active(s.voting) THEN {Outcome(s, "true")}
    ELSE UNION {
           IF c.tag = "Err" THEN {Outcome(s, "err")}
           ELSE IF c.val = None THEN {Outcome(s, "true")}
           ELSE Send([s EXCEPT !.round = set_prevoted_index(@)],
                     Msg("Prevote", c.val[1]), "true")
           : c \in construct_prevote(s)}

\* a prevote that sends its message and reports that it did not prevote
prevote_unreported(s, prevote_timer_ready) ==
    IF ~(prevote_timer_ready \/ completable(s.round)) THEN {Outcome(s, "false")}
    ELSE IF ~is_active(s.voting) THEN {Outcome(s, "true")}
    ELSE UNION {
           IF c.tag = "Err" THEN {Outcome(s, "err")}
           ELSE IF c.val = None THEN {Outcome([s EXCEPT !.voting = "No"], "true")}
           ELSE Send([s EXCEPT !.round = set_prevoted_index(@)],
                     Msg("Prevote", c.val[1]), "false")
           : c \in construct_prevote(s)}

prevote(s, prevote_timer_ready) ==
    IF ~(prevote_timer_ready \/ completable(s.round)) THEN {Outcome(s, "false")}
    ELSE IF ~is_active(s.voting) THEN {Outcome(s, "true")}
    ELSE UNION {
           IF c.tag = "Err" THEN {Outcome(s, "err")}
           ELSE IF c.val = None THEN {Outcome([s EXCEPT !.voting = "No"], "true")}
           ELSE Send([s EXCEPT !.round = set_prevoted_index(@)],
                     Msg("Prevote", c.val[1]), "true")
           : c \in construct_prevote(s)}

\* VotingRound::construct_precommit
construct_precommit(s) ==
    LET g == prevote_ghost(s.round)
    IN  Msg("Precommit", IF g # None THEN g[1] ELSE s.round.base)

\* the test of precommit on the previous round's estimate
estimate_lower_or_equal_to_prevote_ghost(s) ==
    LET previous_round_estimate == s.previous_round_state.estimate[1]
        g == prevote_ghost(s.round)
    IN  /\ g # None
        /\ \/ g[1] = previous_round_estimate
           \/ is_equal_or_descendent_of(previous_round_estimate[1], g[1][1])

\* a precommit that does not wait for the previous round's estimate
precommit_ungated(s, precommit_timer_ready) ==
    IF ~(precommit_timer_ready \/ completable(s.round))
    THEN {Outcome(s, "false")}
    ELSE IF ~is_active(s.voting) THEN {Outcome(s, "true")}
    ELSE Send([s EXCEPT !.round = set_precommitted_index(@)],
              construct_precommit(s), "true")

\* VotingRound::precommit
precommit(s, precommit_timer_ready) ==
    IF ~(/\ estimate_lower_or_equal_to_prevote_ghost(s)
         /\ (precommit_timer_ready \/ completable(s.round)))
    THEN {Outcome(s, "false")}
    ELSE IF ~is_active(s.voting) THEN {Outcome(s, "true")}
    ELSE Send([s EXCEPT !.round = set_precommitted_index(@)],
              construct_precommit(s), "true")

\* VotingRound::is_completable
is_completable(s) ==
    IF ~completable(s.round) \/ finalized(s.round) = None THEN FALSE
    ELSE LET est == s.previous_round_state.estimate
             fin == s.previous_round_state.finalized
         IN  IF est # None /\ fin # None
             THEN \/ est[1][2] <= fin[1][2]
                  \/ est[1][2] <= finalized(s.round)[1][2]
             ELSE FALSE

(***************************************************************************)
(* its environment (the two input streams; a timer fires in SelectTimer).  *)
(* its environment (the two input streams; a timer fires in SelectTimer).   *)
(***************************************************************************)
\* RoundState { prevote_ghost, finalized, estimate, completable }
RoundState(pg, fin, est, c) ==
    [prevote_ghost |-> pg, finalized |-> fin, estimate |-> est, completable |-> c]

\* the snapshots of the previous round that a round is started with or is
\* sent: the previous round is completable, so it has an estimate and a
\* prevote-GHOST
PrevStates ==
    {RoundState(Some(Block("E1")), None, Some(Block("C")), TRUE),
     RoundState(Some(Block("E1")), Some(Block("B")), Some(Block("C")), TRUE),
     RoundState(Some(Block("E1")), Some(Block("C")), Some(Block("C")), TRUE),
     RoundState(Some(Block("E1")), Some(Block("B")), Some(Block("D2")), TRUE)}

\* the items the incoming stream may yield: signed messages, and an error
IncomingItems ==
    {Signed("Prevote", Block("E1"), "p", TRUE),
     Signed("Precommit", Block("E1"), "p", TRUE),
     Signed("Precommit", Block("C"), "p", TRUE),
     Signed("Prevote", Block("C"), "p", TRUE),
     Signed("Prevote", Block("A"), "p", TRUE),
     Signed("Prevote", Block("E1"), "z", TRUE),
     Signed("Precommit", Block("E1"), "q", FALSE),
     Signed("PrimaryPropose", Block("D1"), "p", TRUE),
     Signed("PrimaryPropose", Block("D1"), "q", TRUE),
     Signed("Error", Block("G"), "z", FALSE)}

\* the snapshots of the previous round that construct_prevote is followed
\* on, as (prevote-GHOST, estimate): the estimate below the GHOST, at the
\* round's base, on another branch than the GHOST, and the GHOST itself
PrevotePrevStates ==
    {RoundState(Some(Block("E2")), None, Some(Block("C")), TRUE),
     RoundState(Some(Block("E2")), None, Some(Block("B")), TRUE),
     RoundState(Some(Block("E1")), None, Some(Block("D2")), TRUE),
     RoundState(Some(Block("D2")), None, Some(Block("D2")), TRUE)}

\* the proposals that the primary may send: any block at or above the
\* round's base, with its number or with a number that is one too low
ProposeTargets ==
    UNION {{<<h, Number(h)>>, <<h, Number(h) - 1>>} :
              h \in {b \in Blocks : IsEqualOrDescendant(RoundBase[1], b)}}

ProposeItems ==
    {Signed("PrimaryPropose", t, primary_voter, TRUE) : t \in ProposeTargets}

\* the items of the stream whose history is kept: those above, and a
\* Precommit and a PrimaryPropose that do not descend from the round's base
InboxItems ==
    IncomingItems \cup {Signed("Precommit", Block("X"), "p", TRUE),
                        Signed("PrimaryPropose", Block("A"), "p", TRUE)}

\* the items of the stream that is followed up to the return of run: the
\* votes of the supermajority voter that complete the round, and an error
HandoffItems ==
    {Signed("Prevote", Block("E1"), "p", TRUE),
     Signed("Precommit", Block("E1"), "p", TRUE),
     Signed("Precommit", Block("C"), "p", TRUE),
     Signed("Error", Block("G"), "z", FALSE)}

\* the votes of the other voter for the head of the chain
HappyItems ==
    {Signed("Prevote", Block("E1"), "p", TRUE),
     Signed("Precommit", Block("E1"), "p", TRUE)}

Self ==
    [voting |-> voting, round |-> round, primary_block |-> primary_block,
     previous_round_state |-> previous_round_state, outgoing |-> outgoing]

\* the fields of the struct after a method
Store(s) ==
    /\ voting' = s.voting
    /\ round' = s.round
    /\ primary_block' = s.primary_block
    /\ previous_round_state' = s.previous_round_state
    /\ outgoing' = s.outgoing

\* VotingRound::new, with the voter id that round_data gives: the primary's,
\* another voter's, or none
RoundInitWith(last_round_states) ==
    /\ state = "Start"
    /\ voting \in {"Primary", "Yes", "No"}
    /\ incoming = <<>>
    /\ outgoing = <<>>
    /\ round = RoundNew
    /\ primary_block = None
    /\ previous_round_state \in last_round_states
    /\ previous_round_state_updates = <<>>
    /\ prevote_timer = "pending"
    /\ precommit_timer = "pending"
    /\ pc = "loop"
    /\ arm = "None"
    /\ proposed = FALSE
    /\ timer_ready = FALSE
    /\ arrived = [msgs |-> 0, updates |-> 0]
    /\ log = [yielded |-> <<>>, taken |-> <<>>]

RoundInit == RoundInitWith(PrevStates)

\* run: the top of the loop, mem::replace(&mut self.state, State::Poisoned)
\* and, in the Start arm, primary_propose; up to the select! of handle_inputs!
LoopEntry ==
    /\ pc = "loop"
    /\ IF state = "Poisoned"
       THEN /\ pc' = "panic"
            /\ UNCHANGED <<state, arm, proposed>>
            /\ Store(Self)
       ELSE /\ arm' = state
            /\ state' = "Poisoned"
            /\ IF state = "Start"
               THEN \E o \in primary_propose(Self) :
                       /\ Store(o.self)
                       /\ IF o.ret = "err"
                          THEN pc' = "err" /\ UNCHANGED proposed
                          ELSE pc' = "wait" /\ proposed' = (o.ret = "true")
               ELSE /\ Store(Self)
                    /\ pc' = "wait"
                    /\ UNCHANGED proposed
    /\ UNCHANGED <<incoming, previous_round_state_updates, prevote_timer,
                   precommit_timer, timer_ready, arrived, log>>
    /\ UNCHANGED graphVars

\* a run whose Start arm looks at `proposed` before `prevoted`
ContinueProposedFirst(s, ready) ==
    /\ timer_ready' = ready
    /\ UNCHANGED <<arm, proposed>>
    /\ IF arm \in {"Start", "Proposed"}
       THEN \E o \in prevote(s, ready) :
               /\ Store(o.self)
               /\ IF o.ret = "err" THEN pc' = "err" /\ UNCHANGED state
                  ELSE /\ pc' = "loop"
                       /\ state' = IF arm = "Start" /\ proposed THEN "Proposed"
                                   ELSE IF o.ret = "true" THEN "Prevoted"
                                   ELSE arm
       ELSE IF arm = "Prevoted"
       THEN \E o \in precommit(s, ready) :
               /\ Store(o.self)
               /\ IF o.ret = "err" THEN pc' = "err" /\ UNCHANGED state
                  ELSE /\ pc' = "loop"
                       /\ state' = IF o.ret = "true" THEN "Precommitted" ELSE "Prevoted"
       ELSE /\ Store(s)
            /\ IF is_completable(s)
               THEN pc' = "done" /\ UNCHANGED state
               ELSE pc' = "loop" /\ state' = "Precommitted"

\* a run that answers a failed prevote or precommit by trying the phase again
ContinueRetriesOnError(s, ready) ==
    /\ timer_ready' = ready
    /\ UNCHANGED <<arm, proposed>>
    /\ IF arm \in {"Start", "Proposed"}
       THEN \E o \in prevote(s, ready) :
               /\ Store(o.self)
               /\ pc' = "loop"
               /\ state' = IF o.ret = "true" THEN "Prevoted"
                           ELSE IF arm = "Start" /\ proposed THEN "Proposed"
                           ELSE arm
       ELSE IF arm = "Prevoted"
       THEN \E o \in precommit(s, ready) :
               /\ Store(o.self)
               /\ pc' = "loop"
               /\ state' = IF o.ret = "true" THEN "Precommitted" ELSE "Prevoted"
       ELSE /\ Store(s)
            /\ IF is_completable(s)
               THEN pc' = "done" /\ UNCHANGED state
               ELSE pc' = "loop" /\ state' = "Precommitted"

\* a run whose Precommitted arm does not store the state back
ContinueLeavesPoisoned(s, ready) ==
    /\ timer_ready' = ready
    /\ UNCHANGED <<arm, proposed>>
    /\ IF arm \in {"Start", "Proposed"}
       THEN \E o \in prevote(s, ready) :
               /\ Store(o.self)
               /\ IF o.ret = "err" THEN pc' = "err" /\ UNCHANGED state
                  ELSE /\ pc' = "loop"
                       /\ state' = IF o.ret = "true" THEN "Prevoted"
                                   ELSE IF arm = "Start" /\ proposed THEN "Proposed"
                                   ELSE arm
       ELSE IF arm = "Prevoted"
       THEN \E o \in precommit(s, ready) :
               /\ Store(o.self)
               /\ IF o.ret = "err" THEN pc' = "err" /\ UNCHANGED state
                  ELSE /\ pc' = "loop"
                       /\ state' = IF o.ret = "true" THEN "Precommitted" ELSE "Prevoted"
       ELSE /\ Store(s)
            /\ IF is_completable(s)
               THEN pc' = "done" /\ UNCHANGED state
               ELSE pc' = "loop" /\ UNCHANGED state

\* run: the rest of an iteration, from the value of handle_inputs! on
Continue(s, ready) ==
    /\ timer_ready' = ready
    /\ UNCHANGED <<arm, proposed>>
    /\ IF arm \in {"Start", "Proposed"}
       THEN \E o \in prevote(s, ready) :
               /\ Store(o.self)
               /\ IF o.ret = "err" THEN pc' = "err" /\ UNCHANGED state
                  ELSE /\ pc' = "loop"
                       /\ state' = IF o.ret = "true" THEN "Prevoted"
                                   ELSE IF arm = "Start" /\ proposed THEN "Proposed"
                                   ELSE arm
       ELSE IF arm = "Prevoted"
       THEN \E o \in precommit(s, ready) :
               /\ Store(o.self)
               /\ IF o.ret = "err" THEN pc' = "err" /\ UNCHANGED state
                  ELSE /\ pc' = "loop"
                       /\ state' = IF o.ret = "true" THEN "Precommitted" ELSE "Prevoted"
       ELSE /\ Store(s)
            /\ IF is_completable(s)
               THEN pc' = "done" /\ UNCHANGED state
               ELSE pc' = "loop" /\ state' = "Precommitted"

\* the result of Round::import_prevote / import_precommit for a vote message
ImportResultOf(s, m) ==
    ImportVote(s.round,
               IF m.kind = "Prevote" THEN s.round.prevotes ELSE s.round.precommits,
               m.kind, m.target, m.id, m.sig).result

\* a select! that returns an error for a vote whose import does not succeed
TakeIncomingStrict ==
    /\ pc = "wait"
    /\ incoming # <<>>
    /\ incoming' = Tail(incoming)
    /\ IF \/ Head(incoming).kind = "Error"
          \/ /\ Head(incoming).kind \in {"Prevote", "Precommit"}
             /\ is_equal_or_descendent_of(round.base[1], Head(incoming).target[1])
             /\ ImportResultOf(Self, Head(incoming)) # "Imported"
       THEN /\ pc' = "err"
            /\ Store(Self)
            /\ UNCHANGED <<state, arm, proposed, timer_ready>>
       ELSE Continue(handle_incoming_message(Self, Head(incoming)), FALSE)
    /\ UNCHANGED <<previous_round_state_updates, prevote_timer, precommit_timer,
                   arrived>>
    /\ UNCHANGED graphVars

\* a select! that takes two items of the stream and handles the first
TakeIncomingLossy ==
    /\ pc = "wait"
    /\ incoming # <<>>
    /\ incoming' = IF Len(incoming) > 1 THEN Tail(Tail(incoming)) ELSE Tail(incoming)
    /\ IF Head(incoming).kind = "Error"
       THEN /\ pc' = "err"
            /\ Store(Self)
            /\ UNCHANGED <<state, arm, proposed, timer_ready>>
       ELSE Continue(handle_incoming_message(Self, Head(incoming)), FALSE)
    /\ UNCHANGED <<previous_round_state_updates, prevote_timer, precommit_timer,
                   arrived>>
    /\ UNCHANGED graphVars

\* handle_inputs!: the select! takes the next item of the incoming stream
TakeIncoming ==
    /\ pc = "wait"
    /\ incoming # <<>>
    /\ incoming' = Tail(incoming)
    /\ IF Head(incoming).kind = "Error"
       THEN /\ pc' = "err"
            /\ Store(Self)
            /\ UNCHANGED <<state, arm, proposed, timer_ready>>
       ELSE Continue(handle_incoming_message(Self, Head(incoming)), FALSE)
    /\ UNCHANGED <<previous_round_state_updates, prevote_timer, precommit_timer,
                   arrived>>
    /\ UNCHANGED graphVars

SelectIncoming == TakeIncoming /\ UNCHANGED log

\* the same step, with the item written to the history of the stream
SelectIncomingLogged ==
    /\ TakeIncoming
    /\ log' = [log EXCEPT !.taken = Append(@, Head(incoming))]

\* handle_inputs!: the select! takes the next previous-round state update
SelectUpdate ==
    /\ pc = "wait"
    /\ previous_round_state_updates # <<>>
    /\ previous_round_state_updates' = Tail(previous_round_state_updates)
    /\ Continue([Self EXCEPT !.previous_round_state =
                                 Head(previous_round_state_updates)], FALSE)
    /\ UNCHANGED <<incoming, prevote_timer, precommit_timer, arrived, log>>
    /\ UNCHANGED graphVars

\* handle_inputs!: the timer of the arm completes and the select! takes it;
\* the fused timer is terminated from then on and is not polled again.  (A
\* timer that completes while the select! takes another input is taken by
\* a later select!, as one that completes later is.)
SelectTimer ==
    /\ pc = "wait"
    /\ IF arm \in {"Start", "Proposed"}
       THEN /\ prevote_timer = "pending"
            /\ prevote_timer' = "terminated"
            /\ UNCHANGED precommit_timer
       ELSE /\ arm = "Prevoted"
            /\ precommit_timer = "pending"
            /\ precommit_timer' = "terminated"
            /\ UNCHANGED prevote_timer
    /\ Continue(Self, TRUE)
    /\ UNCHANGED <<incoming, previous_round_state_updates, arrived, log>>
    /\ UNCHANGED graphVars

\* run is suspended in select!: between two suspensions the task runs
\* alone, and what the environment does is seen at the next select! only;
\* once run has returned nothing polls the streams
Suspended == pc = "wait"

\* the environment: the incoming stream gets its next item, once the one
\* before has been taken
DeliverFrom(items) ==
    /\ Suspended
    /\ incoming = <<>>
    /\ arrived.msgs < MaxMsgs
    /\ \E m \in items : incoming' = Append(incoming, m)
    /\ arrived' = [arrived EXCEPT !.msgs = @ + 1]
    /\ UNCHANGED <<state, voting, outgoing, round, primary_block,
                   previous_round_state, previous_round_state_updates,
                   prevote_timer, precommit_timer, pc, arm, proposed, timer_ready,
                   log>>
    /\ UNCHANGED graphVars

Deliver == DeliverFrom(IncomingItems)

\* the environment: the primary's proposal arrives
DeliverPropose == DeliverFrom(ProposeItems)

\* the environment: the incoming stream yields its next item, whether the
\* ones before have been taken or not, and also once run has returned the
\* stream in its CompletableRound; the item is written to the history
YieldFrom(items, max) ==
    /\ pc \in {"wait", "done"}
    /\ arrived.msgs < max
    /\ \E m \in items :
         /\ incoming' = Append(incoming, m)
         /\ log' = [log EXCEPT !.yielded = Append(@, m)]
    /\ arrived' = [arrived EXCEPT !.msgs = @ + 1]
    /\ UNCHANGED <<state, voting, outgoing, round, primary_block,
                   previous_round_state, previous_round_state_updates,
                   prevote_timer, precommit_timer, pc, arm, proposed, timer_ready>>
    /\ UNCHANGED graphVars

YieldLogged == YieldFrom(InboxItems, MaxMsgs)

\* the environment: the stream yields one of the votes that complete the
\* round, or an error
YieldHandoff == YieldFrom(HandoffItems, MaxYield)

\* the environment: the stream yields the other voter's Prevote or its
\* Precommit, each of them once
YieldHappy ==
    /\ pc \in {"loop", "wait"}
    /\ \E m \in HappyItems :
         /\ \A i \in DOMAIN log.yielded : log.yielded[i] # m
         /\ incoming' = Append(incoming, m)
         /\ log' = [log EXCEPT !.yielded = Append(@, m)]
    /\ arrived' = [arrived EXCEPT !.msgs = @ + 1]
    /\ UNCHANGED <<state, voting, outgoing, round, primary_block,
                   previous_round_state, previous_round_state_updates,
                   prevote_timer, precommit_timer, pc, arm, proposed, timer_ready>>
    /\ UNCHANGED graphVars

\* the environment: the previous round sends a snapshot of its state
DeliverUpdateFrom(snapshots) ==
    /\ Suspended
    /\ previous_round_state_updates = <<>>
    /\ arrived.updates < MaxUpdates
    /\ \E u \in snapshots :
         previous_round_state_updates' = Append(previous_round_state_updates, u)
    /\ arrived' = [arrived EXCEPT !.updates = @ + 1]
    /\ UNCHANGED <<state, voting, outgoing, round, primary_block,
                   previous_round_state, incoming,
                   prevote_timer, precommit_timer, pc, arm, proposed, timer_ready,
                   log>>
    /\ UNCHANGED graphVars

DeliverUpdate == DeliverUpdateFrom(PrevStates)

\* the environment: the previous round reports that its estimate is finalized
DeliverFinalized ==
    DeliverUpdateFrom({RoundState(Some(Block("E1")), Some(Block("C")),
                                  Some(Block("C")), TRUE)})

\* a round that is constructed and never run, for the graph's specification
RoundIdle ==
    /\ RoundInit
    /\ voting = "No"
    /\ previous_round_state = RoundState(Some(Block("E1")), None, Some(Block("C")), TRUE)

\* a graph that is constructed and never used, for the round's specification
GraphIdle ==
    /\ GraphInit
    /\ base = GENESIS_HASH

InitGraph == GraphInit /\ RoundIdle

NextGraph == Insert

SpecGraph == InitGraph /\ [][NextGraph]_vars

\* a call with the chain's number, made while no call has mismatched
InsertMatching == last.op # "mismatch" /\ Insert

\* the tracker with callers that may pass a wrong number; the calls that
\* follow a mismatching one are left out
NextMismatch == InsertMatching \/ InsertMismatch

SpecMismatch == InitGraph /\ [][NextMismatch]_vars

RunStep == LoopEntry \/ SelectIncoming \/ SelectUpdate \/ SelectTimer

EnvStep == Deliver \/ DeliverUpdate

InitRound == RoundInit /\ GraphIdle

NextRound == RunStep \/ EnvStep

SpecRound == InitRound /\ [][NextRound]_vars

\* the round of the primary, with the history of its incoming stream
InitInbox ==
    /\ InitRound
    /\ voting = "Primary"
    /\ previous_round_state =
          RoundState(Some(Block("E1")), Some(Block("B")), Some(Block("C")), TRUE)

NextInbox ==
    \/ LoopEntry
    \/ SelectIncomingLogged
    \/ SelectUpdate
    \/ SelectTimer
    \/ YieldLogged
    \/ DeliverFinalized

SpecInbox == InitInbox /\ [][NextInbox]_vars

\* the round of the primary up to its return and after it, with the history
\* of its incoming stream
NextHandoff ==
    \/ LoopEntry
    \/ SelectIncomingLogged
    \/ SelectUpdate
    \/ SelectTimer
    \/ YieldHandoff
    \/ DeliverFinalized

SpecHandoff == InitInbox /\ [][NextHandoff]_vars

\* the round of an active voter that is not the primary: the other voter's
\* Prevote and Precommit are fed, the timers fire, and the previous round
\* has finalized a block
InitHappy ==
    /\ InitRound
    /\ voting = "Yes"
    /\ previous_round_state.finalized # None

NextHappy == LoopEntry \/ SelectIncomingLogged \/ SelectTimer \/ YieldHappy

SpecHappy == InitHappy /\ [][NextHappy]_vars

\* the round up to its prevote, with every proposal of the primary
InitPrevote == RoundInitWith(PrevotePrevStates) /\ GraphIdle

NextPrevote == LoopEntry \/ SelectIncoming \/ SelectTimer \/ DeliverPropose

SpecPrevote == InitPrevote /\ [][NextPrevote]_vars

(***************************************************************************)
(* Claims about the vote graph, checked under SpecGraph.                   *)
(***************************************************************************)
Keys == DOMAIN entries

\* the sum of the weights of the inserts made at block e or at a descendant of it
VotedOnChainOf(e) ==
    SumOver([k \in VoteKeys |->
                IF IsEqualOrDescendant(e, k[1]) THEN votes[k] * k[2] ELSE 0],
            VoteKeys)

\* C1: after any sequence of inserts whose numbers are the chain's, every
\* entry's cumulative_vote is the sum of the weights of exactly those inserts
\* whose block is the entry's block or a descendant of it, whichever arm
\* (append, branch, existing node) each insert took.
C1_CumulativeVoteIsSum ==
    \A e \in Keys : entries[e].cumulative_vote = VotedOnChainOf(e)

\* a branch was introduced under two containing nodes that carried votes, and
\* the new node sums them with its own vote
C1_Witness ==
    /\ last.op = "branch"
    /\ Len(entries[last.hash].descendents) = 2
    /\ entries[last.hash].cumulative_vote > last.vote + 1

\* C2: heads is a subset of the entry keys, and a hash is a head if and only
\* if its entry has no descendents.
C2_HeadsAreLeaves ==
    /\ heads \subseteq Keys
    /\ \A h \in Keys : h \in heads <=> entries[h].descendents = <<>>

\* a branch node was introduced (it is no head) next to a node that append
\* took out of heads
C2_Witness ==
    /\ last.op = "branch"
    /\ last.hash \notin heads
    /\ \E h \in Keys \ {last.hash, base} : h \notin heads

\* C3: for every non-base entry e whose ancestor_node() is a, the descendents
\* of a contain e's hash.
C3_AncestorListsChild ==
    \A e \in Keys \ {base} :
        LET a == ancestor_node(entries[e])
        IN  a \in Keys /\ \E i \in 1..Len(entries[a].descendents) :
                              entries[a].descendents[i] = e

\* the k-th block (from 1) on the way from block b back to the genesis
RECURSIVE NthParent(_, _)
NthParent(b, k) == IF k = 0 THEN b ELSE NthParent(Parent(b), k - 1)

\* C4: the base entry has no ancestors; every other entry e has
\* number(e) - number(ancestor_node(e)) ancestors, the k-th of them (from 0)
\* being the block of number e.number-1-k on e's chain, so that the last one
\* is the hash of its ancestor vote-node.
C4_AncestorsAreTheEdge ==
    /\ entries[base].ancestors = <<>>
    /\ \A e \in Keys \ {base} :
         LET anc == entries[e].ancestors
             a   == ancestor_node(entries[e])
         IN  /\ a \in Keys
             /\ Len(anc) = entries[e].number - entries[a].number
             /\ \A k \in 1..Len(anc) :
                  /\ anc[k] = NthParent(e, k)
                  /\ Number(anc[k]) = entries[e].number - k

\* a branch split an edge of three blocks or more: the split entry keeps a
\* part of it and the new node takes the rest
C4_Witness ==
    /\ last.op = "branch"
    /\ Len(entries[last.hash].ancestors) >= 2
    /\ \E d \in Keys : /\ ancestor_node(entries[d]) = last.hash
                       /\ Len(entries[d].ancestors) >= 2

\* the votes of the history in one fixed order: by block, then by weight
RECURSIVE Repeat(_, _)
Repeat(x, n) == IF n = 0 THEN <<>> ELSE <<x>> \o Repeat(x, n - 1)

RECURSIVE WeightsOf(_, _)
WeightsOf(b, ws) ==
    IF ws = {} THEN <<>>
    ELSE LET w == CHOOSE x \in ws : \A y \in ws : x <= y
         IN  Repeat(<<b, w>>, votes[<<b, w>>]) \o WeightsOf(b, ws \ {w})

RECURSIVE SortedVotes(_)
SortedVotes(i) ==
    IF i > Len(BlockOrder) THEN <<>>
    ELSE WeightsOf(BlockOrder[i], Weights) \o SortedVotes(i + 1)

\* a fresh graph with the same base, the votes inserted in the given order
RECURSIVE InsertAll(_, _)
InsertAll(g, vs) ==
    IF vs = <<>> THEN g
    ELSE InsertAll(insert(g, vs[1][1], Number(vs[1][1]), vs[1][2],
                          CHOOSE o \in Orders(g.heads) : TRUE),
                   Tail(vs))

Reordered == InsertAll(new(base, Number(base)), SortedVotes(1))

\* C5: a graph built from the same multiset of votes in another order has
\* the same entries, the same cumulative_vote for every entry, the same heads
\* and the same ancestor_node for every entry.
C5_InsertOrderIndependent ==
    LET other == Reordered
    IN  /\ DOMAIN other.entries = Keys
        /\ other.heads = heads
        /\ \A e \in Keys :
             /\ other.entries[e].cumulative_vote = entries[e].cumulative_vote
             /\ ancestor_node(other.entries[e]) = ancestor_node(entries[e])

\* E1, E2 and then C were inserted (C by a branch), where the other order
\* inserts C first and appends E1 and E2 to it
C5_Witness ==
    /\ last.op = "branch" /\ last.hash = "C"
    /\ \E w1, w2 \in Weights : votes[<<"E1", w1>>] > 0 /\ votes[<<"E2", w2>>] > 0
    /\ Reordered.entries["C"].descendents # entries["C"].descendents

(***************************************************************************)
(* Claims about the voting round, checked under SpecRound (C9 under        *)
(* SpecPrevote).  When pc = "loop" and arm is not "None", an iteration of  *)
(* run has just been completed: arm is the phase it started in, state the  *)
(* phase it stored, timer_ready the value of its handle_inputs!, proposed  *)
(* the value of its primary_propose, and round the round its method saw.   *)
(***************************************************************************)
IterationDone == pc = "loop" /\ arm # "None"

Sent(kind) == {i \in DOMAIN outgoing : outgoing[i].kind = kind}

\* C6: run only takes Start->{Start, Proposed, Prevoted},
\* Proposed->{Proposed, Prevoted}, Prevoted->{Prevoted, Precommitted} and
\* Precommitted->{Precommitted, exit}; Start->Proposed only if a
\* PrimaryPropose was sent in the iteration and prevote returned false; the
\* move to Prevoted is made exactly when the prevote timer fired in the wait
\* or the round is completable after it; run returns Ok only from
\* Precommitted.
C6_PhaseTransitions ==
    /\ IterationDone =>
         /\ <<arm, state>> \in {<<"Start", "Start">>, <<"Start", "Proposed">>,
                                <<"Start", "Prevoted">>, <<"Proposed", "Proposed">>,
                                <<"Proposed", "Prevoted">>, <<"Prevoted", "Prevoted">>,
                                <<"Prevoted", "Precommitted">>,
                                <<"Precommitted", "Precommitted">>}
         /\ (arm = "Start" /\ state = "Proposed") =>
               /\ proposed
               /\ Sent("PrimaryPropose") # {}
               /\ ~(timer_ready \/ completable(round))
         /\ arm \in {"Start", "Proposed"} =>
               (state = "Prevoted" <=> (timer_ready \/ completable(round)))
    /\ pc = "done" => arm = "Precommitted"

C6_Witness ==
    /\ IterationDone
    /\ arm = "Start"
    /\ state = "Proposed"

\* the numbers of the previous round's estimate and finalized block, and of
\* the block finalized in the current round
PrevEstimateNumber == previous_round_state.estimate[1][2]

\* C7: is_completable() is true exactly when the current round is
\* completable, has a finalized block, and (i) the previous round's estimate
\* number is at most the previous round's finalized number or (ii) the
\* current round's finalized number is at least the previous round's
\* estimate number; run returns a CompletableRound only where this holds.
C7_ExitTest ==
    LET pf == previous_round_state.finalized
        cf == finalized(round)
        test == /\ completable(round)
                /\ cf # None
                /\ \/ pf # None /\ PrevEstimateNumber <= pf[1][2]
                   \/ cf[1][2] >= PrevEstimateNumber
    IN  /\ is_completable(Self) <=> test
        /\ pc = "done" => test

\* C8: whenever run waits in Precommitted and is_completable() is true, run
\* can exit without a further incoming message or previous-round update:
\* with both streams silent, a step of run is still possible.
C8_ExitNeedsNoInput ==
    (/\ pc = "wait"
     /\ arm = "Precommitted"
     /\ is_completable(Self)
     /\ incoming = <<>>
     /\ previous_round_state_updates = <<>>)
    => ENABLED RunStep

\* the block that C9 has construct_prevote choose, from the chain relations:
\* the k-th element of ancestry(E, G) is the k+1-th parent of G, and there
\* are G.number - E.number of them when G descends from E
C9_Chosen ==
    LET E == previous_round_state.estimate[1]
        G == previous_round_state.prevote_ghost[1]
    IN  IF primary_block = None THEN E[1]
        ELSE LET P == primary_block[1]
                 offset == G[2] - (P[2] + 1)
             IN  IF P = G THEN P[1]
                 ELSE IF P[2] >= G[2] THEN E[1]
                 ELSE IF /\ IsDescendant(E[1], G[1])
                         /\ offset < G[2] - E[2]
                         /\ NthParent(G[1], offset + 1) = P[1]
                 THEN P[1]
                 ELSE E[1]

\* the block chosen is the primary's (and not the estimate's) only if the
\* primary's is the GHOST, or an ancestor of the GHOST at or above the estimate
C9_ChosenOnlyOnGhostChain ==
    \/ primary_block = None
    \/ find_descendent_of(Self) # primary_block[1][1]
    \/ primary_block[1][1] = previous_round_state.estimate[1][1]
    \/ primary_block[1] = previous_round_state.prevote_ghost[1]
    \/ /\ IsDescendant(primary_block[1][1], previous_round_state.prevote_ghost[1][1])
       /\ IsEqualOrDescendant(previous_round_state.estimate[1][1], primary_block[1][1])

\* C9: construct_prevote chooses E without a hint P, P if P = G, E if
\* P.number >= G.number, and otherwise P if ancestry(E, G)[offset] is P's
\* hash, else E (also when the offset is out of range or the ancestry
\* fails); the Prevote sent targets best_chain_containing(the chosen block);
\* P is chosen (and is not E's block) only if it is G, or an ancestor of G
\* at or above E.
C9_PrevoteTarget ==
    /\ find_descendent_of(Self) = C9_Chosen
    /\ C9_ChosenOnlyOnGhostChain
    /\ (IterationDone /\ arm \in {"Start", "Proposed"} /\ state = "Prevoted") =>
          /\ Sent("Prevote") \subseteq {Len(outgoing)}
          /\ Sent("Prevote") # {} =>
                outgoing[Len(outgoing)].target = Block(BestChain(C9_Chosen))
    /\ Sent("Prevote") # {} => state \notin {"Start", "Proposed"}

\* a Prevote for the best chain of the primary's block D2, which is in the
\* ancestry of the GHOST E2 and not the estimate C
C9_Witness ==
    /\ primary_block = Some(Block("D2"))
    /\ previous_round_state.prevote_ghost = Some(Block("E2"))
    /\ previous_round_state.estimate = Some(Block("C"))
    /\ Sent("Prevote") # {}
    /\ \A i \in Sent("Prevote") : outgoing[i].target = Block("E2")

\* C10: the state moves Prevoted->Precommitted, and a Precommit is sent,
\* only when (the precommit timer fired or the round is completable) and
\* the round has a prevote-GHOST equal to or descending from the previous
\* round's estimate; the Precommit targets that prevote-GHOST, so a block
\* equal to or descending from the previous round's estimate of that time.
C10_PrecommitGate ==
    /\ (IterationDone /\ arm = "Prevoted" /\ state = "Precommitted") =>
         LET g == prevote_ghost(round)
         IN  /\ timer_ready \/ completable(round)
             /\ g # None
             /\ IsEqualOrDescendant(previous_round_state.estimate[1][1], g[1][1])
             /\ is_active(voting) =>
                  /\ Sent("Precommit") = {Len(outgoing)}
                  /\ outgoing[Len(outgoing)].target = g[1]
             /\ ~is_active(voting) => Sent("Precommit") = {}
    /\ Sent("Precommit") # {} =>
         \/ arm = "Prevoted" /\ state = "Precommitted" /\ pc = "loop"
         \/ arm = "Precommitted"

C10_Witness ==
    /\ IterationDone
    /\ arm = "Prevoted"
    /\ state = "Precommitted"
    /\ timer_ready
    /\ ~completable(round)
    /\ Sent("Precommit") # {}

\* run waits in the Start arm: primary_propose has just returned `proposed`
AfterPropose == pc = "wait" /\ arm = "Start"

\* C11: a PrimaryPropose is sent only by the round's primary and only if the
\* previous-round snapshot held at that moment has an estimate that is not
\* finalized (no finalized block, or estimate.number > finalized.number);
\* its target is that estimate; a primary whose snapshot has estimate =
\* finalized sends none.
C11_PrimaryProposeGate ==
    LET est == previous_round_state.estimate
        fin == previous_round_state.finalized
    IN  /\ Sent("PrimaryPropose") # {} <=> proposed
        /\ (AfterPropose /\ proposed) =>
              /\ is_primary(voting)
              /\ est # None
              /\ fin = None \/ est[1][2] > fin[1][2]
              /\ outgoing = <<Msg("PrimaryPropose", est[1])>>
        /\ (AfterPropose /\ est = fin) => outgoing = <<>>

C11_Witness ==
    /\ AfterPropose
    /\ proposed
    /\ previous_round_state.finalized # None

(***************************************************************************)
(* Claims about the messages a round takes, checked under SpecInbox.       *)
(***************************************************************************)
\* the item is a message, and its target does not descend from the base
BelowBase(m) ==
    m.kind # "Error" /\ ~IsEqualOrDescendant(round.base[1], m.target[1])

\* the votes and the primary's block that a sequence of taken messages
\* leaves, when those below the base are left out
RECURSIVE Replay(_, _)
Replay(s, taken) ==
    IF taken = <<>> THEN s
    ELSE Replay(IF Head(taken).kind = "Error" \/ BelowBase(Head(taken)) THEN s
                ELSE handle_incoming_message(s, Head(taken)),
                Tail(taken))

Imported(s) ==
    [prevotes |-> s.round.prevotes, precommits |-> s.round.precommits,
     equivocations |-> s.round.equivocations, primary_block |-> s.primary_block]

Fresh == [Self EXCEPT !.round = RoundNew, !.primary_block = None]

\* C12: handling a Prevote, Precommit or PrimaryPropose whose target is not
\* the round's base or a descendant of it leaves the VotingRound as it was
\* (the Round, primary_block, voting, the sink), so that the votes and the
\* primary's block of a round are those of the other messages it has taken.
C12_BelowBaseIgnored ==
    /\ \A m \in InboxItems :
          BelowBase(m) => handle_incoming_message(Self, m) = Self
    /\ Imported(Self) = Imported(Replay(Fresh, log.taken))

C12_Witness ==
    /\ pc = "loop"
    /\ Len(log.taken) > 1
    /\ BelowBase(log.taken[1])
    /\ log.taken[1].kind = "PrimaryPropose"
    /\ ~BelowBase(log.taken[Len(log.taken)])
    /\ log.taken[Len(log.taken)].kind = "Prevote"
    /\ prevote_ghost(round) # None
    /\ primary_block = None

IsVote(m) == m.kind \in {"Prevote", "Precommit"} /\ ~BelowBase(m)

Dropped(s, m) ==
    IsVote(m) /\ ImportResultOf(s, m) \in {"BadSignature", "NotAVoter", "DuplicateVote"}

\* the votes and the primary's block that a sequence of taken messages
\* leaves, when the votes whose import fails are left out as well
RECURSIVE ReplayImported(_, _)
ReplayImported(s, taken) ==
    IF taken = <<>> THEN s
    ELSE ReplayImported(IF \/ Head(taken).kind = "Error"
                           \/ BelowBase(Head(taken))
                           \/ Dropped(s, Head(taken))
                        THEN s
                        ELSE handle_incoming_message(s, Head(taken)),
                        Tail(taken))

C14_HandoffLosesNothing ==
    /\ log.yielded = log.taken \o incoming
    /\ Imported(Self) = Imported(ReplayImported(Fresh, log.taken))
    /\ \A i \in DOMAIN log.taken :
          log.taken[i].kind = "Error" => (i = Len(log.taken) /\ pc = "err")

\* run has returned after the messages it took, and the stream holds an
\* item that it did not take
C14_Witness ==
    /\ pc = "done"
    /\ incoming # <<>>
    /\ Len(log.taken) > 1

(***************************************************************************)
(* More claims about the voting round, checked under SpecRound.            *)
(***************************************************************************)
\* C15: run never finds the Poisoned state at the top of its loop: an
\* iteration that has taken the state out has stored a phase before the next
\* one starts, or run has returned (its result, or an error) and no
\* iteration follows.
C15_NeverPoisonedAtLoopEntry ==
    /\ pc # "panic"
    /\ pc = "loop" => state \in {"Start", "Proposed", "Prevoted", "Precommitted"}
    /\ state = "Poisoned" => pc \in {"wait", "done", "err"}
    /\ pc \in {"done", "err"} => ~ENABLED RunStep

\* run has returned an error from the Prevoted arm and left the state taken
C15_Witness ==
    /\ pc = "err"
    /\ arm = "Prevoted"
    /\ state = "Poisoned"

\* the stream has yielded both votes, run has taken what the stream held
\* and is suspended in its select!
HappyInputsTaken ==
    /\ pc = "wait"
    /\ incoming = <<>>
    /\ \A m \in HappyItems : \E i \in DOMAIN log.yielded : log.yielded[i] = m

\* C16: on the happy path - an active voter that is not the primary, one
\* Prevote and one Precommit of the other voter for the head of the chain,
\* the prevote timer and the precommit timer firing - run eventually
\* returns: it is never left suspended with both votes taken and no timer
\* that its select! waits for.
C16_HappyPathReturns ==
    HappyInputsTaken =>
       \/ arm \in {"Start", "Proposed"} /\ prevote_timer = "pending"
       \/ arm = "Prevoted" /\ precommit_timer = "pending"

\* The nodes of the ancestor_node() chain of a vote-node, the node included.
RECURSIVE NodeChain(_, _)
NodeChain(ents, h) ==
    IF ancestor_node(ents[h]) = "None" THEN {h}
    ELSE {h} \cup NodeChain(ents, ancestor_node(ents[h]))

\* C17: inserting a vote at a hash that already is a vote-node (the base
\* included) leaves the entry set, every entry's number, ancestors and
\* descendents, and heads unchanged, and raises cumulative_vote by the vote
\* exactly on that node and on the nodes of its ancestor_node() chain.
C17_ExistingNodeOnlyWalks ==
    \A hash \in Keys : \A vote \in Weights : \A order \in Orders(heads) :
        LET g == insert(Graph, hash, entries[hash].number, vote, order)
        IN  /\ DOMAIN g.entries = Keys
            /\ g.heads = heads
            /\ g.base = base
            /\ \A k \in Keys :
                  /\ g.entries[k].number = entries[k].number
                  /\ g.entries[k].ancestors = entries[k].ancestors
                  /\ g.entries[k].descendents = entries[k].descendents
                  /\ g.entries[k].cumulative_vote =
                        entries[k].cumulative_vote
                          + (IF k \in NodeChain(entries, hash) THEN vote ELSE 0)

C17_Witness ==
    /\ last.op = "existing"
    /\ last.hash # base
    /\ Cardinality(NodeChain(entries, last.hash)) > 1
    /\ Keys \ NodeChain(entries, last.hash) # {}

\* the members of an entry's descendents list
Children(e) == {e.descendents[i] : i \in 1..Len(e.descendents)}

\* C18: after a branch is introduced the moved descendants are listed by the
\* new node and no longer by their prior ancestor-node: in every state the
\* descendents of an entry are exactly the entries whose ancestor_node() is
\* that entry, without stale members.
C18_DescendentsAreExactlyChildren ==
    \A a \in Keys :
        Children(entries[a]) = {e \in Keys : ancestor_node(entries[e]) = a}

\* C19: an insert whose number does not match the chain's number of the hash
\* leaves the graph unchanged: no entry is added or split and no
\* cumulative_vote changes.
C19_MismatchLeavesGraphUnchanged ==
    [][last'.op = "mismatch" => UNCHANGED <<entries, heads, base>>]_vars

\* the prevote step of the round has been taken
PastPrevote ==
    \/ arm \in {"Prevoted", "Precommitted"}
    \/ IterationDone /\ state \in {"Prevoted", "Precommitted"}

\* C20: when best_chain_containing returns no block for the prevote, voting
\* becomes disabled and neither a Prevote nor a Precommit is sent in the rest
\* of the round, whatever arrives or fires later; the round still moves to
\* Prevoted and, under the gate of precommit, to Precommitted.
C20_NoBlockSkipsVoting ==
    /\ (PastPrevote /\ Sent("Prevote") = {}) => voting = "No"
    /\ voting = "No" => (Sent("Prevote") = {} /\ Sent("Precommit") = {})
    /\ (IterationDone /\ arm = "Prevoted" /\ voting = "No") =>
          (state = "Precommitted" <=>
              /\ estimate_lower_or_equal_to_prevote_ghost(Self)
              /\ timer_ready \/ completable(round))

\* a primary that proposed, found no block to prevote for, and whose round
\* completed without a vote of its own
C20_Witness ==
    /\ pc = "done"
    /\ proposed
    /\ voting = "No"
    /\ Sent("PrimaryPropose") # {}
    /\ prevote_timer = "terminated"
    /\ precommit_timer = "terminated"

\* C21: in Prevoted, once the precommit timer has fired, the round precommits
\* as soon as the previous round's estimate is equal to or an ancestor of the
\* prevote-GHOST, also when the timer fired in an earlier wait: an iteration
\* of the Prevoted arm that ends with the timer fired and the GHOST condition
\* true has moved to Precommitted, an active voter having sent its Precommit.
C21_TimerFiringNotForgotten ==
    (/\ IterationDone
     /\ arm = "Prevoted"
     /\ precommit_timer = "terminated"
     /\ estimate_lower_or_equal_to_prevote_ghost(Self)) =>
        /\ state = "Precommitted"
        /\ is_active(voting) => Sent("Precommit") # {}

\* the outcomes of the method that the next step of run calls
NextCallOutcomes ==
    IF pc = "loop" /\ state = "Start" THEN primary_propose(Self)
    ELSE IF pc = "wait" /\ arm \in {"Start", "Proposed"}
    THEN prevote(Self, TRUE) \cup prevote(Self, FALSE)
    ELSE IF pc = "wait" /\ arm = "Prevoted"
    THEN precommit(Self, TRUE) \cup precommit(Self, FALSE)
    ELSE {}

\* C22: a failed environment call ends run with Err in that step: the failed
\* call adds nothing to the sink, a vote marked in the round but absent from
\* the sink is found only in a run that has returned Err, and after Err no
\* step of run is taken (no later message, no CompletableRound).
C22_FailurePropagates ==
    /\ \A o \in NextCallOutcomes :
          /\ o.ret = "err" => o.self.outgoing = outgoing
          /\ o.ret # "err" =>
                \/ o.self.outgoing = outgoing
                \/ /\ Len(o.self.outgoing) = Len(outgoing) + 1
                   /\ \E e \in NextCallOutcomes : e.ret = "err"
    /\ (round.prevoted_index /\ Sent("Prevote") = {}) =>
          (pc = "err" /\ arm \in {"Start", "Proposed"})
    /\ (round.precommitted_index /\ Sent("Precommit") = {}) =>
          (pc = "err" /\ arm = "Prevoted")
    /\ pc = "err" => (state = "Poisoned" /\ ~ENABLED RunStep)

\* the send of the Prevote failed: the round marked it, the sink lacks it
C22_Witness ==
    /\ pc = "err"
    /\ arm = "Proposed"
    /\ round.prevoted_index
    /\ Sent("Prevote") = {}
    /\ Sent("PrimaryPropose") # {}

\* the place of a kind of message in the order of the phases
KindRank(kind) ==
    IF kind = "PrimaryPropose" THEN 1 ELSE IF kind = "Prevote" THEN 2 ELSE 3

\* C23: the sink receives at most one PrimaryPropose, at most one Prevote and
\* at most one Precommit, in that order; a voter that does not vote and did
\* not propose has sent nothing, in whatever phase its round is.
C23_OneMessagePerPhaseInOrder ==
    /\ \A i, j \in DOMAIN outgoing :
          i < j => KindRank(outgoing[i].kind) < KindRank(outgoing[j].kind)
    /\ \A i \in DOMAIN outgoing :
          outgoing[i].kind \in {"PrimaryPropose", "Prevote", "Precommit"}
    /\ (voting = "No" /\ ~proposed) => outgoing = <<>>
    /\ Sent("Prevote") # {} => PastPrevote \/ pc = "err"
    /\ Sent("Precommit") # {} => Sent("Prevote") # {}

\* the three messages of a primary, all sent
C23_Witness ==
    /\ Len(outgoing) = 3
    /\ pc = "done"

\* a round of a voter that does not vote, completed through both phases
C23_SilentWitness ==
    /\ voting = "No"
    /\ ~proposed
    /\ outgoing = <<>>
    /\ pc = "done"
    /\ arm = "Precommitted"

\* a PrimaryPropose of the round's primary at the base or above it
AcceptedPropose(m) ==
    /\ m.kind = "PrimaryPropose"
    /\ m.id = primary_voter
    /\ IsEqualOrDescendant(round.base[1], m.target[1])

\* the target of the last accepted PrimaryPropose of a history, if any
RECURSIVE LastProposed(_)
LastProposed(taken) ==
    IF taken = <<>> THEN None
    ELSE IF AcceptedPropose(taken[Len(taken)]) THEN Some(taken[Len(taken)].target)
    ELSE LastProposed(SubSeq(taken, 1, Len(taken) - 1))

\* C24: primary_block is changed only by an incoming PrimaryPropose sent by
\* the round's primary whose target is the base or a descendant of it; a
\* PrimaryPropose of another sender changes neither primary_block nor the
\* round, and a Prevote or a Precommit never changes primary_block.
C24_PrimaryBlockOnlyFromPrimary ==
    /\ primary_block = LastProposed(log.taken)
    /\ \A m \in InboxItems \ {x \in InboxItems : x.kind = "Error"} :
          LET s == handle_incoming_message(Self, m)
          IN  /\ s.primary_block # primary_block => AcceptedPropose(m)
              /\ AcceptedPropose(m) => s.primary_block = Some(m.target)
              /\ (m.kind = "PrimaryPropose" /\ m.id # primary_voter) => s = Self
              /\ m.kind \in {"Prevote", "Precommit"} =>
                    s.primary_block = primary_block

\* the primary's proposal was taken, then one of another voter was ignored
C24_Witness ==
    /\ Len(log.taken) = 2
    /\ AcceptedPropose(log.taken[1])
    /\ log.taken[2].kind = "PrimaryPropose"
    /\ log.taken[2].id # primary_voter
    /\ primary_block = Some(log.taken[1].target)

\* C25: the edges are sparse and point to the nearest tracked ancestor: for
\* every non-base entry e, no hash of e.ancestors but the last is the key of
\* an entry, ancestor_node(e) is the highest-numbered vote-node among the
\* strict ancestors of e on the chain, and following ancestor_node() from e
\* reaches the base.
C25_EdgesPointToNearestNode ==
    \A e \in Keys \ {base} :
        LET anc == entries[e].ancestors
            a   == ancestor_node(entries[e])
        IN  /\ a \in Keys
            /\ \A k \in 1..(Len(anc) - 1) : anc[k] \notin Keys
            /\ a # e /\ IsEqualOrDescendant(a, e)
            /\ \A k \in Keys \ {e} :
                  IsEqualOrDescendant(k, e) => Number(k) <= Number(a)
            /\ base \in NodeChain(entries, e)

\* the fork of E1 and E2 at the untracked block C, above the vote-node A
C25_Witness ==
    /\ {"A", "E1", "E2"} \subseteq Keys
    /\ "C" \notin Keys
    /\ ancestor_node(entries["E1"]) = "A"
    /\ ancestor_node(entries["E2"]) = "A"
    /\ Len(entries["E1"].ancestors) > 1

====
